---- MODULE Spec2Model ----
(***************************************************************************)
(* Model of the case index of the OCPA workbench (src/app/models.py) and   *)
(* of the part of the dashboard script (src/main.py) that drives it.       *)
(*                                                                         *)
(* Python values are modelled as follows.                                  *)
(*   dict        a sequence of <<key, value>> pairs in insertion order,    *)
(*               each key once (Python dicts keep insertion order)         *)
(*   defaultdict a dict whose read of a missing key inserts the default    *)
(*   list, tuple a sequence                                                *)
(*   set         a set; a set of Trace is kept distinct by Trace.__eq__    *)
(*   hash(x)     the hashed value x itself: Python's hash of a tuple of    *)
(*               strings is taken to be free of collisions                 *)
(*   None        membership of the field's name in the variable unset      *)
(*   a / b       the pair [num |-> a, den |-> b]                           *)
(***************************************************************************)
EXTENDS Integers, Sequences, FiniteSets, TLC

\* ------------------------------------------------------------- bounds
\* longest event table handed to the index
MaxRows == 2
\* event timestamps are 1..MaxTime
MaxTime == 2
\* lookups issued between two completed reloads
MaxQueries == 2
\* longest trace given to the hash functions
MaxHashLen == 2
\* longest trace given to directly_follows_graph
MaxDfgLen == 3

\* ----------------------------------------------------------- universe
Activities == {"A", "B"}
Times == 1..MaxTime
\* the object-type columns of the table, in column order
ObjectColumns == <<"order", "item">>
\* the object-type cells of a row: each a list of object ids, the empty list
\* being "no reference"
Cells ==
    {[order |-> <<>>, item |-> <<>>],
     [order |-> <<"o1">>, item |-> <<>>],
     [order |-> <<"o2">>, item |-> <<>>],
     [order |-> <<"o1", "o2">>, item |-> <<>>],
     [order |-> <<"o1", "o1">>, item |-> <<>>],
     [order |-> <<>>, item |-> <<"i1">>],
     [order |-> <<"o1">>, item |-> <<"i1">>]}
EventColumns == {"event_timestamp", "event_activity"}

Range(s) == {s[i] : i \in DOMAIN s}
ObjectTypes == Range(ObjectColumns)

\* ------------------------------------------------------------- state
VARIABLES
    df,               \* the event table (ocel.log.log): its rows
    cases_by_object,  \* Cases.cases_by_object
    objects,          \* Cases._objects
    variant_count,    \* Cases._variant_count
    variants,         \* Cases._variants
    unset,            \* the fields of Cases that are None
    queries,          \* lookups issued since the last completed reload
    ret,              \* the last call and its outcome (dropped: the ids the
                      \* index replaced by a completed reload held and the
                      \* new one does not)
    probe             \* argument and result of a pure function under test

vars == <<df, cases_by_object, objects, variant_count, variants, unset, queries, ret, probe>>
index == <<cases_by_object, objects, variant_count, variants>>

Rows == [event_activity : Activities, event_timestamp : Times, cells : Cells]

RECURSIVE SeqsUpTo(_, _)
SeqsUpTo(S, n) ==
    IF n = 0 THEN {<<>>}
    ELSE LET shorter == SeqsUpTo(S, n - 1)
         IN  shorter \cup {Append(s, x) : s \in {t \in shorter : Len(t) = n - 1}, x \in S}

\* --------------------------------------------------------------- dict
DictKeys(d) == {d[i][1] : i \in DOMAIN d}
DictHas(d, k) == k \in DictKeys(d)
DictGet(d, k) == d[CHOOSE i \in DOMAIN d : d[i][1] = k][2]
DictGetOr(d, k, default) == IF DictHas(d, k) THEN DictGet(d, k) ELSE default
DictPut(d, k, v) ==
    IF DictHas(d, k)
    THEN [i \in DOMAIN d |-> IF d[i][1] = k THEN <<k, v>> ELSE d[i]]
    ELSE Append(d, <<k, v>>)
DictValues(d) == [i \in DOMAIN d |-> d[i][2]]

\* -------------------------------------------------------------- Trace
Event(activity, timestamp, event_objects) ==
    [activity |-> activity, timestamp |-> timestamp, objects |-> event_objects]

\* the mutant of get_case_hash: the items of e.objects hashed as a tuple, in
\* the order the dict holds them
get_case_hash_ordered(trace) ==
    [i \in DOMAIN trace |-> <<trace[i].activity, trace[i].objects>>]

\* the mutant of get_trace_hash: the attached objects hashed with the activity
get_trace_hash_objects(trace) == get_case_hash_ordered(trace)

\* hash(tuple([e.activity for e in self]))
get_trace_hash(trace) == [i \in DOMAIN trace |-> trace[i].activity]

\* hash(tuple((e.activity, frozenset((k, tuple(v)) for k, v in e.objects.items())) for e in self))
get_case_hash(trace) ==
    [i \in DOMAIN trace |->
        <<trace[i].activity,
          {<<trace[i].objects[j][1], trace[i].objects[j][2]>> : j \in DOMAIN trace[i].objects}>>]

\* the mutant of TraceEq: traces compared by their activities alone
TraceEqByActivities(a, b) == get_trace_hash(a) = get_trace_hash(b)

\* Trace.__eq__ on two Traces (Trace.__hash__ is the case hash too)
TraceEq(a, b) == get_case_hash(a) = get_case_hash(b)

\* ------------------------------------------ Trace.directly_follows_graph
Quote(text) == "\"" \o text \o "\""
RECURSIVE Join(_, _)
Join(texts, sep) ==
    IF texts = <<>> THEN ""
    ELSE IF Len(texts) = 1 THEN texts[1]
    ELSE texts[1] \o sep \o Join(Tail(texts), sep)
\* f"{value}" of a list of strings
ListRepr(values) == "[" \o Join([i \in DOMAIN values |-> "'" \o values[i] \o "'"], ", ") \o "]"

\* the mutant of NodeId: the activity without its position
NodeIdBare(activity, i) == activity

\* f"{activity}_{i}", i counted from 0
NodeId(activity, i) == activity \o "_" \o ToString(i)

NodeLine(id, label) == "    " \o Quote(id) \o " [label=" \o Quote(label) \o ", shape=rect];"

EdgeLabel(event, include_objects) ==
    IF include_objects
    THEN " [label=\"" \o
         Join([j \in DOMAIN event.objects |->
                  event.objects[j][1] \o ": " \o ListRepr(event.objects[j][2])], ", ") \o "\"]"
    ELSE ""

\* the text returned is the header, the node lines and the edge lines, each
\* group a set joined in its iteration order
directly_follows_graph(events, include_objects) ==
    IF Len(events) = 1
    THEN [nodes |-> {NodeLine(events[1].activity, events[1].activity)}, edges |-> {}]
    ELSE [nodes |-> {NodeLine(NodeId(events[i].activity, i - 1), events[i].activity) :
                        i \in DOMAIN events},
          edges |-> {"    " \o Quote(NodeId(events[i].activity, i - 1)) \o " -> " \o
                     Quote(NodeId(events[i + 1].activity, i)) \o
                     EdgeLabel(events[i + 1], include_objects) \o ";" :
                        i \in 1..(Len(events) - 1)}]

\* set.add on a set of Trace: an element equal to a member is not added
SetAdd(S, trace) ==
    IF \E m \in S : TraceEq(m, trace) THEN S ELSE S \cup {trace}

Variant(trace, percentage, count) ==
    [trace |-> trace, percentage |-> percentage, count |-> count]

\* ------------------------------------------- Cases._dataframe_to_events
RECURSIVE InsertByTimestamp(_, _)
InsertByTimestamp(sorted, row) ==
    IF sorted = <<>> THEN <<row>>
    ELSE IF Head(sorted).event_timestamp <= row.event_timestamp
         THEN <<Head(sorted)>> \o InsertByTimestamp(Tail(sorted), row)
         ELSE <<row>> \o sorted

RECURSIVE SortFrom(_, _)
SortFrom(sorted, rows) ==
    IF rows = <<>> THEN sorted
    ELSE SortFrom(InsertByTimestamp(sorted, Head(rows)), Tail(rows))

\* the mutant of sort_values: the rows are taken in table order
sort_values_table_order(rows) == rows

\* df.sort_values('event_timestamp'): ascending; rows of equal timestamp
\* keep their table order (the sort is a function of the table)
sort_values(rows) == SortFrom(<<>>, rows)

\* {col: row[col] for col in df.columns if not col.startswith('event_') and row[col]}
RowObjects(row) ==
    SelectSeq([i \in DOMAIN ObjectColumns |-> <<ObjectColumns[i], row.cells[ObjectColumns[i]]>>],
              LAMBDA item : item[2] # <<>>)

\* raised: sort_values has no 'event_timestamp' column to sort by, or the
\* first row read has no 'event_activity'
dataframe_to_events(table) ==
    IF "event_timestamp" \notin table.columns
    THEN [raised |-> TRUE, events |-> <<>>]
    ELSE IF "event_activity" \notin table.columns /\ table.rows # <<>>
    THEN [raised |-> TRUE, events |-> <<>>]
    ELSE LET sorted == sort_values(table.rows)
         IN  [raised |-> FALSE,
              events |-> [i \in DOMAIN sorted |->
                             Event(sorted[i].event_activity, sorted[i].event_timestamp,
                                   RowObjects(sorted[i]))]]

\* ------------------------------------------------------- Cases.reload
\* self.cases_by_object[object_type][value].append(event)
RECURSIVE AddValues(_, _, _, _)
AddValues(cbo, object_type, values, event) ==
    IF values = <<>> THEN cbo
    ELSE LET inner == DictGetOr(cbo, object_type, <<>>)
             trace == DictGetOr(inner, Head(values), <<>>)
         IN  AddValues(DictPut(cbo, object_type, DictPut(inner, Head(values), Append(trace, event))),
                       object_type, Tail(values), event)

RECURSIVE AddItems(_, _, _)
AddItems(cbo, items, event) ==
    IF items = <<>> THEN cbo
    ELSE AddItems(AddValues(cbo, Head(items)[1], Head(items)[2], event), Tail(items), event)

RECURSIVE AddEvents(_, _)
AddEvents(cbo, events) ==
    IF events = <<>> THEN cbo
    ELSE AddEvents(AddItems(cbo, Head(events).objects, Head(events)), Tail(events))

\* the mutant of BuildCases: the events are merged into the index at hand
BuildCasesMerging(events) == AddEvents(cases_by_object, events)

BuildCases(events) == AddEvents(<<>>, events)

\* self._objects.add(value)
BuildObjects(events) ==
    UNION {UNION {Range(events[i].objects[j][2]) : j \in DOMAIN events[i].objects} :
              i \in DOMAIN events}

\* self._variant_count[object_type][value.get_trace_hash()].add(value)
RECURSIVE AddTraces(_, _, _)
AddTraces(vc, object_type, object_name) ==
    IF object_name = <<>> THEN vc
    ELSE LET value == Head(object_name)[2]
             inner == DictGetOr(vc, object_type, <<>>)
             bucket == DictGetOr(inner, get_trace_hash(value), {})
         IN  AddTraces(DictPut(vc, object_type,
                               DictPut(inner, get_trace_hash(value), SetAdd(bucket, value))),
                       object_type, Tail(object_name))

RECURSIVE AddTypes(_, _)
AddTypes(vc, cbo) ==
    IF cbo = <<>> THEN vc
    ELSE AddTypes(AddTraces(vc, Head(cbo)[1], Head(cbo)[2]), Tail(cbo))

BuildVariantCount(cbo) == AddTypes(<<>>, cbo)

RECURSIVE SumLen(_)
SumLen(buckets) ==
    IF buckets = <<>> THEN 0 ELSE Cardinality(Head(buckets)) + SumLen(Tail(buckets))

\* total = sum([len(variant) for variant in type_variants.values()])
Total(type_variants) == SumLen(DictValues(type_variants))

\* list(value)[0] is whichever member the set's iteration yields first:
\* first[<<object_type, key>>] is that member, any member of the bucket
RECURSIVE FirstOfBuckets(_, _)
FirstOfBuckets(object_type, type_variants) ==
    IF type_variants = <<>> THEN {<<>>}
    ELSE {(<<object_type, Head(type_variants)[1]>> :> member) @@ first :
             member \in Head(type_variants)[2],
             first \in FirstOfBuckets(object_type, Tail(type_variants))}

RECURSIVE FirstMembers(_)
FirstMembers(vc) ==
    IF vc = <<>> THEN {<<>>}
    ELSE {here @@ first :
             here \in FirstOfBuckets(Head(vc)[1], Head(vc)[2]),
             first \in FirstMembers(Tail(vc))}

VariantsOfType(object_type, type_variants, first) ==
    [i \in DOMAIN type_variants |->
        Variant(first[<<object_type, type_variants[i][1]>>],
                [num |-> Cardinality(type_variants[i][2]),
                 den |-> Total(type_variants)],
                Cardinality(type_variants[i][2]))]

\* variants = defaultdict(list): a type gets its key at its first append
BuildVariants(vc, first) ==
    SelectSeq([i \in DOMAIN vc |-> <<vc[i][1], VariantsOfType(vc[i][1], vc[i][2], first)>>],
              LAMBDA item : item[2] # <<>>)

\* ------------------------------------------------------------ actions
Fields == {"cases_by_object", "_objects", "_variant_count", "_variants"}

Outcome(op, raised, args, value, dropped) ==
    [op |-> op, raised |-> raised, args |-> args, value |-> value, dropped |-> dropped]

\* Cases.__init__ on a table of at most MaxRows rows
Init ==
    /\ df \in [rows : SeqsUpTo(Rows, MaxRows)]
    /\ cases_by_object = <<>>
    /\ objects = {}
    /\ variant_count = <<>>
    /\ variants = <<>>
    /\ unset = Fields
    /\ queries = 0
    /\ ret = Outcome("init", FALSE, <<>>, <<>>, {})
    /\ probe = <<>>

\* The table reload reads is df.rows under the columns the caller's table has
\* at that call.
Table(columns) == [rows |-> df.rows, columns |-> columns]

ReloadCompletes(columns) ==
    LET got == dataframe_to_events(Table(columns))
        cbo == BuildCases(got.events)
        vc == BuildVariantCount(cbo)
    IN  /\ ~got.raised
        /\ cases_by_object' = cbo
        /\ objects' = BuildObjects(got.events)
        /\ variant_count' = vc
        /\ \E first \in FirstMembers(vc) : variants' = BuildVariants(vc, first)
        /\ unset' = {}
        /\ queries' = 0
        /\ ret' = Outcome("reload", FALSE, <<>>, <<>>, objects \ BuildObjects(got.events))
        /\ UNCHANGED <<df, probe>>

\* the two assignments of lines 121-122 are made before the table is read
ReloadRaises(columns) ==
    /\ dataframe_to_events(Table(columns)).raised
    /\ cases_by_object' = <<>>
    /\ objects' = {}
    /\ unset' = unset \ {"cases_by_object", "_objects"}
    /\ ret' = Outcome("reload", TRUE, <<>>, <<>>, {})
    /\ UNCHANGED <<df, variant_count, variants, queries, probe>>

Reload ==
    \E columns \in {EventColumns, {"event_activity"}, {"event_timestamp"}} :
        ReloadCompletes(columns) \/ ReloadRaises(columns)

\* apply_filters drops rows of the table in place; main calls cases.reload()
\* right after it, so no second apply_filters precedes the next reload
RECURSIVE KeepRows(_, _, _)
KeepRows(rows, keep, i) ==
    IF i > Len(rows) THEN <<>>
    ELSE (IF i \in keep THEN <<rows[i]>> ELSE <<>>) \o KeepRows(rows, keep, i + 1)

ApplyFilters ==
    /\ ret.op # "apply_filters"
    /\ \E keep \in (SUBSET DOMAIN df.rows) \ {DOMAIN df.rows} :
          df' = [df EXCEPT !.rows = KeepRows(df.rows, keep, 1)]
    /\ ret' = Outcome("apply_filters", FALSE, <<>>, <<>>, {})
    /\ UNCHANGED <<index, unset, queries, probe>>

\* ------------------------------------------------------------ lookups
\* the mutant of Subscript: a plain dict, whose read of a missing key raises
SubscriptPlain(vc, object_type, key) ==
    IF DictHas(vc, object_type) /\ DictHas(DictGet(vc, object_type), key)
    THEN [raised |-> FALSE, dict |-> vc, bucket |-> DictGet(DictGet(vc, object_type), key)]
    ELSE [raised |-> TRUE, dict |-> vc, bucket |-> {}]

\* self._variant_count[object_type][key] on defaultdict(_default_dict_of(set)):
\* a missing object_type gets an empty inner dict, a missing key an empty set
Subscript(vc, object_type, key) ==
    LET inner == DictGetOr(vc, object_type, <<>>)
        bucket == DictGetOr(inner, key, {})
    IN  [raised |-> FALSE,
         dict |-> DictPut(vc, object_type, DictPut(inner, key, bucket)),
         bucket |-> bucket]

\* list(s): the members of s in the order the set's iteration yields
Lists(S) == {l \in [1..Cardinality(S) -> S] : Range(l) = S}

\* the object types and variants a caller may pass: those of the index, a
\* type no table has, a variant of no table
QueryTypes == ObjectTypes \cup {"customer"}
UnseenVariant == Variant(<<Event("C", 1, <<>>)>>, [num |-> 0, den |-> 1], 0)
QueryVariants ==
    UNION {Range(variants[i][2]) : i \in DOMAIN variants} \cup {UnseenVariant}

get_traces_by_variant(object_type, variant) ==
    /\ queries < MaxQueries
    /\ queries' = queries + 1
    /\ IF "_variant_count" \in unset
       THEN /\ ret' = Outcome("get_traces_by_variant", TRUE,
                              <<object_type, get_trace_hash(variant.trace)>>, <<>>, {})
            /\ UNCHANGED variant_count
       ELSE LET got == Subscript(variant_count, object_type, get_trace_hash(variant.trace))
            IN  /\ variant_count' = got.dict
                /\ \E value \in Lists(got.bucket) :
                      ret' = Outcome("get_traces_by_variant", got.raised,
                                     <<object_type, get_trace_hash(variant.trace)>>,
                                     IF got.raised THEN <<>> ELSE value, {})
    /\ UNCHANGED <<df, cases_by_object, objects, variants, unset, probe>>

\* objects[object_type].update(event.objects[object_type]) over the traces
\* of the bucket of each type
RECURSIVE CollectObjects(_, _)
CollectObjects(vc, key) ==
    IF vc = <<>> THEN <<>>
    ELSE LET object_type == Head(vc)[1]
             traces == DictGetOr(Head(vc)[2], key, {})
             ids == UNION {UNION {Range(DictGet(trace[e].objects, object_type)) :
                                     e \in DOMAIN trace} : trace \in traces}
         IN  (IF traces = {} THEN <<>> ELSE <<<<object_type, ids>>>>) \o CollectObjects(Tail(vc), key)

\* event.objects[object_type] raises on an event without that type
LacksType(vc, key) ==
    \E i \in DOMAIN vc : \E trace \in DictGetOr(vc[i][2], key, {}) :
        \E e \in DOMAIN trace : ~DictHas(trace[e].objects, vc[i][1])

get_objects_by_variant(variant) ==
    /\ queries < MaxQueries
    /\ queries' = queries + 1
    /\ LET key == get_trace_hash(variant.trace)
           raised == "_variant_count" \in unset \/ LacksType(variant_count, key)
       IN  ret' = Outcome("get_objects_by_variant", raised, <<key>>,
                          IF raised THEN <<>> ELSE CollectObjects(variant_count, key), {})
    /\ UNCHANGED <<df, index, unset, probe>>

\* {k: len(v) for k, v in self.cases_by_object.items()}
unique_object_count ==
    /\ queries < MaxQueries
    /\ queries' = queries + 1
    /\ ret' = Outcome("unique_object_count", "cases_by_object" \in unset, <<>>,
                      [i \in DOMAIN cases_by_object |->
                          <<cases_by_object[i][1], Len(cases_by_object[i][2])>>], {})
    /\ UNCHANGED <<df, index, unset, probe>>

Lookup ==
    \/ \E object_type \in QueryTypes, variant \in QueryVariants :
          get_traces_by_variant(object_type, variant)
    \/ \E variant \in QueryVariants : get_objects_by_variant(variant)
    \/ unique_object_count

\* -------------------------------------------------------- specifications
Next == Reload \/ ApplyFilters

\* the index under reloads and filters
Spec == Init /\ [][Next]_vars

\* the tables of the lookup specification: rows of one timestamp
QueryCells ==
    {[order |-> <<"o1">>, item |-> <<>>],
     [order |-> <<"o2">>, item |-> <<>>],
     [order |-> <<"o1">>, item |-> <<"i1">>]}
QueryRows == {row \in Rows : row.event_timestamp = 1 /\ row.cells \in QueryCells}

InitQuery ==
    /\ Init
    /\ \A i \in DOMAIN df.rows : df.rows[i] \in QueryRows

NextQuery == Reload \/ Lookup

\* the index under reloads and lookups (a lookup reads the index alone, and
\* every table filters leave is an initial table)
SpecQuery == InitQuery /\ [][NextQuery]_vars

\* a Cases built on an empty table, left alone while a function is probed
Idle ==
    /\ df = [rows |-> <<>>]
    /\ cases_by_object = <<>>
    /\ objects = {}
    /\ variant_count = <<>>
    /\ variants = <<>>
    /\ unset = Fields
    /\ queries = 0
    /\ ret = Outcome("init", FALSE, <<>>, <<>>, {})

\* the events the hash functions are probed with: events that differ in the
\* timestamp alone, in the order of the ids, in the order of the dict's keys
HashEvents ==
    {Event("A", 1, <<>>), Event("A", 2, <<>>), Event("B", 1, <<>>),
     Event("A", 1, <<<<"order", <<"o1", "o2">>>>>>),
     Event("A", 1, <<<<"order", <<"o2", "o1">>>>>>),
     Event("A", 1, <<<<"order", <<"o1">>>>, <<"item", <<"i1">>>>>>),
     Event("A", 1, <<<<"item", <<"i1">>>>, <<"order", <<"o1">>>>>>)}
HashTraces == SeqsUpTo(HashEvents, MaxHashLen)

InitHash ==
    /\ Idle
    /\ probe \in [a : HashTraces, b : HashTraces, done : {FALSE}, out : {<<>>}]

CompareTraces ==
    /\ ~probe.done
    /\ probe' = [probe EXCEPT
                    !.done = TRUE,
                    !.out = [same_trace_hash |-> get_trace_hash(probe.a) = get_trace_hash(probe.b),
                             same_case_hash |-> get_case_hash(probe.a) = get_case_hash(probe.b),
                             equal |-> TraceEq(probe.a, probe.b)]]
    /\ UNCHANGED <<df, index, unset, queries, ret>>

\* two Traces hashed and compared
SpecHash == InitHash /\ [][CompareTraces]_vars

\* the events a graph is rendered from: a name repeated, a name that ends
\* like a node id, with and without objects
DfgEvents ==
    {Event(activity, 1, event_objects) :
        activity \in {"A", "B", "A_1"},
        event_objects \in {<<>>, <<<<"order", <<"o1", "o2">>>>>>}}
DfgTraces == SeqsUpTo(DfgEvents, MaxDfgLen)

InitDfg ==
    /\ Idle
    /\ probe \in [trace : DfgTraces, include_objects : BOOLEAN, done : {FALSE}, out : {<<>>}]

RenderGraph ==
    /\ ~probe.done
    /\ probe' = [probe EXCEPT
                    !.done = TRUE,
                    !.out = directly_follows_graph(probe.trace, probe.include_objects)]
    /\ UNCHANGED <<df, index, unset, queries, ret>>

\* one Trace rendered as a directly-follows graph
SpecDfg == InitDfg /\ [][RenderGraph]_vars

\* ------------------------------------------------- terms of the claims
\* the state a completed reload leaves: df is the table that reload read
Fresh == ret.op = "reload" /\ ~ret.raised

\* the object ids the rows of the table reference under a type
ReferencedIds(object_type) ==
    UNION {Range(df.rows[i].cells[object_type]) : i \in DOMAIN df.rows}
\* the events of the rows of the table
RowEvents ==
    {Event(df.rows[i].event_activity, df.rows[i].event_timestamp, RowObjects(df.rows[i])) :
        i \in DOMAIN df.rows}
TracesOf(object_type) == Range(DictValues(DictGetOr(cases_by_object, object_type, <<>>)))
ActivitiesOf(trace) == [i \in DOMAIN trace |-> trace[i].activity]
\* the objects attached to an event, as a mapping from type to ordered ids
AttachedTo(event) == [k \in DictKeys(event.objects) |-> DictGet(event.objects, k)]
SameContent(a, b) ==
    /\ ActivitiesOf(a) = ActivitiesOf(b)
    /\ \A i \in DOMAIN a : AttachedTo(a[i]) = AttachedTo(b[i])
VariantsFor(object_type) == DictGetOr(variants, object_type, <<>>)
BucketsFor(object_type) == DictGetOr(variant_count, object_type, <<>>)
RECURSIVE SumCount(_)
SumCount(vs) == IF vs = <<>> THEN 0 ELSE Head(vs).count + SumCount(Tail(vs))

\* C1: after a completed reload every Variant of a type T has
\* percentage = count / N_T, N_T the number of object ids of T in
\* cases_by_object (the raw instance count).
C1_PercentageOverInstances ==
    Fresh =>
        \A object_type \in DictKeys(variants) :
            \A j \in DOMAIN VariantsFor(object_type) :
                LET v == VariantsFor(object_type)[j]
                    N == Len(DictGet(cases_by_object, object_type))
                IN  v.percentage.num * N = v.count * v.percentage.den

\* C2: after a completed reload the counts of the variants of a type sum
\* to at most the number of distinct object ids of the type in the table,
\* and to exactly that number when no two ids of the type have traces of
\* the same activities and the same attached objects.
C2_CountSumBound ==
    Fresh =>
        \A object_type \in ObjectTypes :
            LET total == SumCount(VariantsFor(object_type))
                ids == ReferencedIds(object_type)
                inner == DictGetOr(cases_by_object, object_type, <<>>)
                alike == \E i, j \in DOMAIN inner :
                            i # j /\ SameContent(inner[i][2], inner[j][2])
            IN  /\ total <= Cardinality(ids)
                /\ ~alike => total = Cardinality(ids)

\* two ids of one type share all their events, so their traces collapse
C2_Witness ==
    /\ Fresh
    /\ Cardinality(ReferencedIds("order")) = 2
    /\ SumCount(VariantsFor("order")) = 1

\* C3: a reload that raises on a missing column leaves cases_by_object,
\* objects, variant_groups and variants as they were before the call.
C3_FailedReloadKeepsIndex ==
    [][(ret'.op = "reload" /\ ret'.raised) => UNCHANGED index]_vars

\* C5: a completed reload replaces the derived state: cases_by_object,
\* objects, variant_groups and variants hold nothing but what the table read
\* by that reload holds, and a reload of an unchanged table after a
\* completed reload leaves the counts and percentages of every type as
\* they were.
Stats(vs) == [j \in DOMAIN vs |-> <<vs[j].count, vs[j].percentage>>]
C5_OnlyThisTable ==
    /\ objects = UNION {ReferencedIds(object_type) : object_type \in ObjectTypes}
    /\ DictKeys(cases_by_object) = {object_type \in ObjectTypes : ReferencedIds(object_type) # {}}
    /\ DictKeys(variant_count) = DictKeys(cases_by_object)
    /\ DictKeys(variants) = DictKeys(cases_by_object)
    /\ \A object_type \in DictKeys(cases_by_object) :
          /\ DictKeys(DictGet(cases_by_object, object_type)) = ReferencedIds(object_type)
          /\ \A trace \in TracesOf(object_type) : Range(trace) \subseteq RowEvents
          /\ \A i \in DOMAIN BucketsFor(object_type) :
                BucketsFor(object_type)[i][2] \subseteq TracesOf(object_type)
          /\ \A j \in DOMAIN VariantsFor(object_type) :
                VariantsFor(object_type)[j].trace \in TracesOf(object_type)
C5_SameTableSameStats ==
    (Fresh /\ ret'.op = "reload" /\ ~ret'.raised /\ df' = df) =>
        /\ DictKeys(variants') = DictKeys(variants)
        /\ \A object_type \in DictKeys(variants) :
              Stats(DictGet(variants', object_type)) = Stats(DictGet(variants, object_type))
C5_ReloadReplaces == [](Fresh => C5_OnlyThisTable) /\ [][C5_SameTableSameStats]_vars

\* a reload after filters removed every row of an object the index held
C5_Witness == Fresh /\ ret.dropped # {} /\ objects # {}

\* C6: after a completed reload the keys of cases_by_object[T] are exactly
\* the object ids the table references under T, each once; every event of
\* the Trace of (T, o) references o under T; and each Trace is in
\* non-decreasing timestamp order whatever the order of the rows.
C6_TracesPerObject ==
    Fresh =>
        /\ DictKeys(cases_by_object) = {object_type \in ObjectTypes : ReferencedIds(object_type) # {}}
        /\ Len(cases_by_object) = Cardinality(DictKeys(cases_by_object))
        /\ \A t \in DOMAIN cases_by_object :
              LET object_type == cases_by_object[t][1]
                  inner == cases_by_object[t][2]
              IN  /\ DictKeys(inner) = ReferencedIds(object_type)
                  /\ Len(inner) = Cardinality(DictKeys(inner))
                  /\ \A i \in DOMAIN inner :
                        LET trace == inner[i][2]
                        IN  /\ \A e \in DOMAIN trace :
                                  /\ DictHas(trace[e].objects, object_type)
                                  /\ inner[i][1] \in Range(DictGet(trace[e].objects, object_type))
                            /\ \A e \in 1..(Len(trace) - 1) :
                                  trace[e].timestamp <= trace[e + 1].timestamp

\* the table lists a later row of o1 before an earlier one
C6_Witness ==
    /\ Fresh
    /\ Len(df.rows) >= 2
    /\ df.rows[1].event_timestamp > df.rows[2].event_timestamp
    /\ "o1" \in Range(df.rows[1].cells["order"]) \cap Range(df.rows[2].cells["order"])
    /\ Len(DictGet(DictGet(cases_by_object, "order"), "o1")) >= 2

\* C9: after a completed reload, variants[T] of a type T with an instance
\* holds exactly one Variant per distinct activity sequence among the Traces
\* of cases_by_object[T]; its trace is a member of that bucket and its count,
\* at least 1, is the number of Traces of distinct content in the bucket; a
\* type without instance is a key of neither variant_groups nor variants;
\* no bucket is empty.
C9_OneVariantPerShape ==
    Fresh =>
        \A object_type \in ObjectTypes :
            LET traces == TracesOf(object_type)
                shapes == {ActivitiesOf(trace) : trace \in traces}
                vs == VariantsFor(object_type)
                buckets == BucketsFor(object_type)
            IN  IF traces = {}
                THEN ~DictHas(variant_count, object_type) /\ ~DictHas(variants, object_type)
                ELSE /\ DictHas(variant_count, object_type) /\ DictHas(variants, object_type)
                     /\ Len(vs) = Cardinality(shapes)
                     /\ {ActivitiesOf(vs[j].trace) : j \in DOMAIN vs} = shapes
                     /\ Len(buckets) = Cardinality(shapes)
                     /\ \A i \in DOMAIN buckets : buckets[i][2] # {}
                     /\ \A j \in DOMAIN vs :
                           LET shape == ActivitiesOf(vs[j].trace)
                               same == {trace \in traces : ActivitiesOf(trace) = shape}
                           IN  /\ vs[j].trace \in same
                               /\ \E i \in DOMAIN buckets :
                                     /\ vs[j].trace \in buckets[i][2]
                                     /\ buckets[i][2] \subseteq same
                                     /\ vs[j].count = Cardinality(buckets[i][2])
                               /\ vs[j].count >= 1
                               /\ vs[j].count =
                                     Cardinality({[e \in DOMAIN trace |->
                                                      <<trace[e].activity, AttachedTo(trace[e])>>] :
                                                  trace \in same})

\* two orders of one shape and different objects, and no item at all
C9_Witness ==
    /\ Fresh
    /\ \E j \in DOMAIN VariantsFor("order") : VariantsFor("order")[j].count = 2
    /\ ~DictHas(variants, "item")
    /\ ReferencedIds("item") = {}

\* C4: once a reload has completed, get_traces_by_variant(T, v) returns an
\* empty sequence when T is no object type of the index or the trace hash of
\* v is no bucket of T, get_objects_by_variant(v) returns an empty mapping
\* when the trace hash of v is a bucket of no type, and neither raises.
C4_Step ==
    "_variant_count" \notin unset =>
        /\ ret'.op = "get_traces_by_variant" =>
              /\ ~ret'.raised
              /\ (\/ ~DictHas(variant_count, ret'.args[1])
                  \/ ~DictHas(DictGet(variant_count, ret'.args[1]), ret'.args[2]))
                 => ret'.value = <<>>
        /\ ret'.op = "get_objects_by_variant" =>
              /\ ~ret'.raised
              /\ (\A i \in DOMAIN variant_count : ~DictHas(variant_count[i][2], ret'.args[1]))
                 => ret'.value = <<>>
C4_LookupsPermissive == [][C4_Step]_vars

\* a type no table has is looked up on a built index
C4_Witness ==
    /\ "_variant_count" \notin unset
    /\ variants # <<>>
    /\ ret.op = "get_traces_by_variant"
    /\ ret.args[1] = "customer"
    /\ ~ret.raised
    /\ ret.value = <<>>

\* C7: two Traces have the same trace hash exactly when their activity
\* sequences are equal; of the same activities and different attached objects
\* at some position, they have different case hashes; and they are equal
\* exactly when the case hashes match, that is when their sequences of
\* (activity, set of (object type, ordered ids)) are equal.
C7_HashesAndEquality ==
    probe.done =>
        LET a == probe.a
            b == probe.b
        IN  /\ probe.out.same_trace_hash <=> ActivitiesOf(a) = ActivitiesOf(b)
            /\ (/\ ActivitiesOf(a) = ActivitiesOf(b)
                /\ \E i \in DOMAIN a : AttachedTo(a[i]) # AttachedTo(b[i]))
               => (probe.out.same_trace_hash /\ ~probe.out.same_case_hash)
            /\ probe.out.equal <=> probe.out.same_case_hash
            /\ probe.out.equal <=> SameContent(a, b)

\* two traces whose events hold the same objects under keys in another order
C7_Witness ==
    /\ probe.done
    /\ Len(probe.a) = Len(probe.b)
    /\ \E i \in DOMAIN probe.a : probe.a[i].objects # probe.b[i].objects
    /\ probe.out.equal

\* C8: the graph of a Trace of one event has one node and no edge; the graph
\* of a Trace of n >= 2 events has n distinct nodes, the node of position i
\* named by the activity and i, and n - 1 edges, one from the node of each
\* position i to the node of position i + 1.
Digits == <<"0", "1", "2", "3", "4", "5", "6", "7", "8", "9">>
C8_NodesAndEdges ==
    probe.done =>
        LET trace == probe.trace
            n == Len(trace)
            name(i) == trace[i].activity \o "_" \o Digits[i]
            StartsWith(text, id) ==
                \E rest \in {"", " [label=\"\"]", " [label=\"order: ['o1', 'o2']\"]"} :
                    text = id \o rest \o ";"
        IN  /\ n = 1 => Cardinality(probe.out.nodes) = 1 /\ probe.out.edges = {}
            /\ n >= 2 =>
                  /\ Cardinality(probe.out.nodes) = n
                  /\ \A i \in 1..n :
                        ("    \"" \o name(i) \o "\" [label=\"" \o trace[i].activity \o "\", shape=rect];")
                            \in probe.out.nodes
                  /\ Cardinality(probe.out.edges) = n - 1
                  /\ \A i \in 1..(n - 1) :
                        \E edge \in probe.out.edges :
                            StartsWith(edge, "    \"" \o name(i) \o "\" -> \"" \o name(i + 1) \o "\"")

\* the trace [A, B, A]
C8_Witness ==
    /\ probe.done
    /\ ActivitiesOf(probe.trace) = <<"A", "B", "A">>
    /\ Cardinality(probe.out.nodes) = 3
    /\ Cardinality(probe.out.edges) = 2

\* C10: get_traces_by_variant, get_objects_by_variant and
\* unique_object_count leave cases_by_object, objects, variant_groups and
\* variants as they were.
C10_LookupsReadOnly ==
    [][ret'.op \in {"get_traces_by_variant", "get_objects_by_variant", "unique_object_count"}
          => UNCHANGED index]_vars

\* the number of rows of the table that reference object id o under a type
RowsReferencing(object_type, o) ==
    Cardinality({i \in DOMAIN df.rows : o \in Range(df.rows[i].cells[object_type])})

\* C11: after a completed reload no Trace holds a log event more than once:
\* for every object type T and object id o, the length of
\* cases_by_object[T][o] is the number of rows of the table that reference o
\* under T, also when a row lists o more than once in the column of T.
C11_EventOncePerTrace ==
    Fresh =>
        \A t \in DOMAIN cases_by_object :
            \A i \in DOMAIN cases_by_object[t][2] :
                Len(cases_by_object[t][2][i][2]) =
                    RowsReferencing(cases_by_object[t][1], cases_by_object[t][2][i][1])

====
